---- MODULE Spec2Model ----
(***************************************************************************)
(* The store of cmd/db.go: the files, services and nginx_config_files      *)
(* tables of createTables, and the operations addFile, updateFile and      *)
(* configureServices on them, together with the Reconciler pass that       *)
(* sequences those operations for one scanned file.                        *)
(***************************************************************************)
EXTENDS Naturals, Sequences, FiniteSets, TLC

\* ------------------------------------------------------------------ bounds
\* Modification times are 1..MaxTime.
MaxTime == 3
\* configureServices is not started when its inserts would take a Service id
\* beyond MaxServices, nor addFile when it would take a File id beyond MaxFiles.
MaxServices == 3
MaxFiles == 3

\* --------------------------------------------------------------- constants
stateNotConfigured == "not configured"
stateToConfigureHttps == "to configure https"
stateToDisableHttp == "to disable http"
stateConfigured == "configured"

\* SQL NULL in a nullable foreign key column.
NULL == 0

\* The definition files of the directory: base name and extension.
PathA == [base |-> "a", ext |-> ".toml"]
PathB == [base |-> "b", ext |-> ".toml"]
Paths == {PathA, PathB}
\* The file whose scan events the Reconciler worker of Spec processes.
Watched == {PathA}

\* One table of a definition file: the service name and its settings.
Entry(n, t) == [name |-> n, tls |-> t]

\* The payloads a definition file goes through as it is edited. The last one
\* defines the table svc twice, which TOML rejects.
Contents ==
    << << Entry("svc", TRUE), Entry("api", TRUE) >>,
       << Entry("svc", FALSE) >>,
       << Entry("svc", TRUE), Entry("svc", FALSE) >> >>

Times == 1..MaxTime

\* The payload written at modification time t.
ContentAt(t) == Contents[((t - 1) % Len(Contents)) + 1]

NoFile == [present |-> FALSE]
DiskFiles == {[present |-> TRUE, content |-> ContentAt(t), modTime |-> t] : t \in Times}

NoRecord == [id |-> NULL]
NoPath == [base |-> "", ext |-> ""]

VARIABLES
    disk,        \* the watched directory: path -> NoFile or a file on disk
    fkEnforced,  \* whether the connection enforces foreign keys (PRAGMA foreign_keys)
    files,       \* rows of table files
    services,    \* rows of table services
    artifacts,   \* rows of table nginx_config_files
    pc,          \* the Reconciler's position in its pass
    mem,         \* the caller's in-memory *models.File
    ret,         \* the last operation, the path it was about and its error
    abandoned,   \* the scanned file whose pass was given up before its
                 \* Services were persisted, NoFile when the last pass was not
    onDisk,      \* the paths of the proxy artifacts present on disk
    schema,      \* the tables that exist in the database, committed
    tx,          \* the transactions opened by createTables and not ended:
                 \* the tables each has created, uncommitted
    calls        \* two callers of addFile running at once: each one's
                 \* argument, position, content read and error returned

vars == <<disk, fkEnforced, files, services, artifacts, pc, mem, ret, abandoned,
          onDisk, schema, tx, calls>>
\* What the operations on the files and services tables leave alone.
others == <<onDisk, schema, tx, calls>>
store == <<files, services, artifacts>>

\* The tables of the schema.
Tables == {"files", "services", "nginx_config_files"}

\* The two callers of addFile that may run at once.
Callers == {1, 2}
NoCall == [pc |-> "none"]

\* ------------------------------------------------------------------ helpers
Max(S) == CHOOSE x \in S : \A y \in S : y <= x

\* INTEGER PRIMARY KEY without AUTOINCREMENT: one more than the largest rowid.
NextId(rows) == IF rows = {} THEN 1 ELSE Max({r.id : r \in rows}) + 1

\* file.Name(): the base name with its extension.
FileName(path) == <<path.base, path.ext>>
\* filepath.Ext(name)
Ext(name) == name[2]
\* strings.TrimSuffix(name, ext)
TrimSuffix(name, ext) == IF name[Len(name)] = ext THEN SubSeq(name, 1, Len(name) - 1) ELSE name

\* The scan event of a file on disk (FilePathAndInfo): its path and os.FileInfo.
FilePathAndInfo(path) == [Path |-> path, ModTime |-> disk[path].modTime]

FileByPath(path) == {f \in files : f.path = path}
FileById(id) == {f \in files : f.id = id}
ServicesOf(id) == {s \in services : s.file_id = id}

\* toml.Decode: fails when a table is defined twice.
DecodeFails(content) ==
    \E i, j \in 1..Len(content) : i # j /\ content[i].name = content[j].name
\* toml.Decode into map[string]ServiceConfig
Decode(content) ==
    [n \in {content[i].name : i \in 1..Len(content)} |->
        [tls |-> content[CHOOSE i \in 1..Len(content) : content[i].name = n].tls]]
\* toml.NewEncoder(&b).Encode(config); b.String()
Encode(config) == <<"tls", config.tls>>

\* The orders in which the first k keys of a map may be visited (Go's range
\* over a map visits the keys in an unspecified order).
Visits(keys) ==
    {q \in UNION {[1..k -> keys] : k \in 0..Cardinality(keys)} :
        \A i, j \in 1..Len(q) : i # j => q[i] # q[j]}

\* -------------------------------------------------------------- operations
\* What an operation returned: its name, the path it was about, its error.
Ret(op, path, err) == [op |-> op, path |-> path, err |-> err]

\* getFileContent: the bytes of the file, or an error when it cannot be opened
\* or read.
ReadFails(path, readOk) == ~readOk \/ ~disk[path].present

\* addFile leaving LastModified at its zero value.
NewFileModelNoModTime(file, content, id) ==
    [id |-> id,
     name |-> TrimSuffix(FileName(file.Path), Ext(FileName(file.Path))),
     path |-> file.Path,
     content |-> content,
     last_modified |-> 0,
     is_configured |-> FALSE]

\* addFile's fModel, as inserted.
NewFileModel(file, content, id) ==
    [id |-> id,
     name |-> TrimSuffix(FileName(file.Path), Ext(FileName(file.Path))),
     path |-> file.Path,
     content |-> content,
     last_modified |-> file.ModTime,
     is_configured |-> FALSE]

\* Table files declared without UNIQUE on path.
PathTakenNotUnique(path) == FALSE

\* files.path is UNIQUE: an insert of a path already stored is refused.
PathTaken(path) == FileByPath(path) # {}

\* The error addFile returns.
addFileErr(file, readOk, insertOk) ==
    IF ReadFails(file.Path, readOk) THEN "read"
    ELSE IF PathTaken(file.Path) THEN "constraint"
    ELSE IF ~insertOk THEN "store"
    ELSE "nil"

addFile(file, readOk, insertOk) ==
    /\ ret' = Ret("addFile", file.Path, addFileErr(file, readOk, insertOk))
    /\ files' = IF ret'.err = "nil"
                  THEN files \cup {NewFileModel(file, disk[file.Path].content, NextId(files))}
                  ELSE files
    /\ UNCHANGED <<services, artifacts>>

\* updateFile without the assignment oldFile.IsConfigured = false.
UpdatedFileKeepsFlag(oldFile, content, file) ==
    [oldFile EXCEPT !.content = content,
                    !.last_modified = file.ModTime]

\* updateFile's assignments to *oldFile.
UpdatedFile(oldFile, content, file) ==
    [oldFile EXCEPT !.content = content,
                    !.is_configured = FALSE,
                    !.last_modified = file.ModTime]

\* *oldFile when updateFile returns: assigned before the row is updated, and
\* left as assigned when the update fails.
updateFileMem(oldFile, file, readOk) ==
    IF ReadFails(file.Path, readOk) THEN oldFile
    ELSE UpdatedFile(oldFile, disk[file.Path].content, file)

\* oldFile.Update: every column of the row with oldFile's id is overwritten.
UpdateRow(rec) == {IF f.id = rec.id THEN rec ELSE f : f \in files}

\* The error updateFile returns.
updateFileErr(file, readOk, updateOk) ==
    IF ReadFails(file.Path, readOk) THEN "read"
    ELSE IF ~updateOk THEN "store"
    ELSE "nil"

updateFile(oldFile, file, readOk, updateOk) ==
    /\ ret' = Ret("updateFile", file.Path, updateFileErr(file, readOk, updateOk))
    /\ files' = IF ret'.err = "nil"
                  THEN UpdateRow(updateFileMem(oldFile, file, readOk))
                  ELSE files
    /\ UNCHANGED <<services, artifacts>>

\* configureServices giving the new Service the state of a finished one.
NewServiceConfigured(file, key, config, id) ==
    [id |-> id,
     file_id |-> file.id,
     name |-> key,
     content |-> Encode(config),
     state |-> stateConfigured,
     last_modified |-> file.last_modified]

\* The Service built in the loop of configureServices, with the file_id that
\* file.AddServices sets before inserting it.
NewService(file, key, config, id) ==
    [id |-> id,
     file_id |-> file.id,
     name |-> key,
     content |-> Encode(config),
     state |-> stateNotConfigured,
     last_modified |-> file.last_modified]

\* services.file_id REFERENCES files (id): with foreign keys enforced, an
\* insert naming a File that is not stored is refused.
ForeignKeyOk(file_id) == ~fkEnforced \/ file_id = NULL \/ FileById(file_id) # {}

\* The table after the inserts of the keys visited, in order.
RECURSIVE AddServices(_, _, _, _)
AddServices(rows, file, configs, visited) ==
    IF visited = <<>> THEN rows
    ELSE AddServices(
            rows \cup {NewService(file, Head(visited), configs[Head(visited)], NextId(rows))},
            file, configs, Tail(visited))

\* configureServices deleting the rows of the File before its inserts.
ConfiguredServicesReplaced(file, visited) ==
    IF DecodeFails(file.content) THEN services
    ELSE AddServices(services \ ServicesOf(file.id), file, Decode(file.content), visited)

\* The Service rows after configureServices.
ConfiguredServices(file, visited) ==
    IF DecodeFails(file.content) THEN services
    ELSE AddServices(services, file, Decode(file.content), visited)

\* The error configureServices returns.
configureServicesErr(file, visited) ==
    IF DecodeFails(file.content) THEN "decode"
    ELSE IF Len(visited) < Cardinality(DOMAIN Decode(file.content)) THEN "store"
    ELSE "nil"

\* configureServices: `visited` are the keys whose insert succeeded, in the
\* order of the loop, which returns at the first insert that fails.
configureServices(file, visited) ==
    /\ visited \in IF DecodeFails(file.content) \/ ~ForeignKeyOk(file.id)
                     THEN {<<>>}
                     ELSE Visits(DOMAIN Decode(file.content))
    /\ services' = ConfiguredServices(file, visited)
    /\ ret' = Ret("configureServices", file.path, configureServicesErr(file, visited))
    /\ UNCHANGED <<files, artifacts>>

\* ------------------------------------------------------------ row deletion
\* nginx_config_files.service_id declared ON DELETE CASCADE instead.
ArtifactsAfterDeleteCascade(gone) ==
    {a \in artifacts : a.service_id \notin {s.id : s \in gone}}

\* nginx_config_files.service_id ... ON DELETE SET NULL: with foreign keys
\* enforced, the artifacts of deleted Services lose their reference.
ArtifactsAfterDelete(gone) ==
    IF fkEnforced
      THEN {IF a.service_id \in {s.id : s \in gone}
              THEN [a EXCEPT !.service_id = NULL] ELSE a : a \in artifacts}
      ELSE artifacts

\* services.file_id ... ON DELETE CASCADE: with foreign keys enforced, the
\* Services of a deleted File are deleted with it; without, they keep the id
\* of the File that is gone.
ServicesAfterFileDelete(f) ==
    IF fkEnforced THEN services \ ServicesOf(f.id) ELSE services

\* DELETE of one row of table files.
DeleteFileRow(f) ==
    /\ files' = files \ {f}
    /\ services' = ServicesAfterFileDelete(f)
    /\ artifacts' = ArtifactsAfterDelete(services \ services')

\* ------------------------------------------------------------- environment
\* A definition file is written, or rewritten, in the watched directory.
WriteDisk(p, d) ==
    /\ d # disk[p]
    /\ disk' = [disk EXCEPT ![p] = d]
    /\ UNCHANGED <<fkEnforced, others, files, services, artifacts, pc, mem, ret, abandoned>>

\* A definition file disappears from the watched directory.
DeleteDisk(p) ==
    /\ disk[p].present
    /\ disk' = [disk EXCEPT ![p] = NoFile]
    /\ UNCHANGED <<fkEnforced, others, files, services, artifacts, pc, mem, ret, abandoned>>

\* -------------------------------------------------------------- Reconciler
\* Room for the inserts of one configureServices call, and of one addFile call.
Room(n) == (NextId(services) - 1) + n <= MaxServices
FileRoom == NextId(files) <= MaxFiles

\* The file on disk that an in-memory File was read from.
Scanned(file) == [present |-> TRUE, content |-> file.content, modTime |-> file.last_modified]

\* Steps 1-2: the path is not stored: addFile, classify New.
ReconcileNew(p, readOk, insertOk) ==
    /\ pc = "idle"
    /\ disk[p].present
    /\ FileByPath(p) = {}
    /\ FileRoom
    /\ addFile(FilePathAndInfo(p), readOk, insertOk)
    /\ IF ret'.err = "nil"
         THEN /\ pc' = "configure"
              /\ mem' = CHOOSE f \in files' : f.path = p
         ELSE /\ pc' = "idle"
              /\ mem' = NoRecord
    /\ abandoned' = NoFile
    /\ UNCHANGED <<disk, fkEnforced, others>>

\* Steps 1, 3: the path is stored with another modification time: updateFile,
\* classify Modified.
ReconcileModified(p, readOk, updateOk) ==
    /\ pc = "idle"
    /\ disk[p].present
    /\ \E old \in FileByPath(p) :
        /\ old.last_modified # disk[p].modTime
        /\ updateFile(old, FilePathAndInfo(p), readOk, updateOk)
        /\ IF ret'.err = "nil"
             THEN /\ pc' = "configure"
                  /\ mem' = updateFileMem(old, FilePathAndInfo(p), readOk)
             ELSE /\ pc' = "idle"
                  /\ mem' = NoRecord
    /\ abandoned' = NoFile
    /\ UNCHANGED <<disk, fkEnforced, others>>

\* Steps 1, 4: the path is stored with the same modification time: classify
\* Unchanged and stop.
ReconcileUnchanged(p) ==
    /\ pc = "idle"
    /\ disk[p].present
    /\ \E old \in FileByPath(p) : old.last_modified = disk[p].modTime
    /\ ret' = Ret("unchanged", p, "nil")
    /\ UNCHANGED <<disk, fkEnforced, others, files, services, artifacts, pc, mem, abandoned>>

\* Steps 5-6: decode the File and insert its Services; on an error the pass
\* is abandoned.
ReconcileServices(visited) ==
    /\ pc = "configure"
    /\ Room(Len(visited))
    /\ configureServices(mem, visited)
    /\ IF ret'.err = "nil"
         THEN /\ pc' = "mark"
              /\ mem' = mem
              /\ abandoned' = NoFile
         ELSE /\ pc' = "idle"
              /\ mem' = NoRecord
              /\ abandoned' = Scanned(mem)
    /\ UNCHANGED <<disk, fkEnforced, others>>

\* Step 7 left out: the pass ends without writing the flag.
MarkAppliedNoWrite ==
    /\ pc = "mark"
    /\ pc' = "idle"
    /\ mem' = NoRecord
    /\ ret' = Ret("markApplied", mem.path, "nil")
    /\ UNCHANGED <<disk, fkEnforced, others, files, services, artifacts, abandoned>>

\* Step 7: every Service of the File is persisted: mark it fully applied.
MarkApplied ==
    /\ pc = "mark"
    /\ files' = {IF f.id = mem.id THEN [f EXCEPT !.is_configured = TRUE] ELSE f : f \in files}
    /\ pc' = "idle"
    /\ mem' = NoRecord
    /\ ret' = Ret("markApplied", mem.path, "nil")
    /\ UNCHANGED <<disk, fkEnforced, others, services, artifacts, abandoned>>

\* The process stops in the middle of a pass and starts again; the store keeps
\* what was committed.
Crash ==
    /\ pc \in {"configure", "mark"}
    /\ pc' = "idle"
    /\ mem' = NoRecord
    /\ ret' = Ret("crash", mem.path, "crash")
    /\ abandoned' = IF pc = "configure" THEN Scanned(mem) ELSE NoFile
    /\ UNCHANGED <<disk, fkEnforced, others, files, services, artifacts>>

\* File removal: the file is gone from the directory and its row is deleted.
RemoveFile(p) ==
    /\ pc = "idle"
    /\ ~disk[p].present
    /\ \E f \in FileByPath(p) : DeleteFileRow(f)
    /\ ret' = Ret("removeFile", p, "nil")
    /\ UNCHANGED <<disk, fkEnforced, others, pc, mem, abandoned>>

\* ---------------------------------------------------------- ArtifactWriter
\* The artifact kinds: the plaintext and the encrypted listener of a Service.
Kinds == {"http", "https"}

\* The path of the artifact of one kind of a Service row.
ArtifactPath(s, kind) == <<s.id, kind>>

ArtifactsOf(id) == {a \in artifacts : a.service_id = id}
Has(s, kind) == \E a \in ArtifactsOf(s.id) : a.type = kind

\* A row of table nginx_config_files, known by its path.
NewArtifact(s, kind) ==
    [service_id |-> s.id, type |-> kind, path |-> ArtifactPath(s, kind)]

\* nginx_config_files.path ... UNIQUE
ArtifactPathTaken(path) == \E a \in artifacts : a.path = path

\* The definition of a Service asks for the encrypted listener.
RequiresHttps(s) == s.content = Encode([tls |-> TRUE])

\* The owned Services: their File is stored.
Owned == {s \in services : s.file_id # NULL /\ FileById(s.file_id) # {}}

SetState(s, state) ==
    services' = (services \ {s}) \cup {[s EXCEPT !.state = state]}

\* Apply(service, artifactKind): the artifact is written to disk and recorded.
Applied(s, kind) ==
    /\ artifacts' = artifacts \cup {NewArtifact(s, kind)}
    /\ onDisk' = onDisk \cup {ArtifactPath(s, kind)}

\* Remove(artifact): the artifact is taken off the disk and its row deleted.
Removed(gone) ==
    /\ artifacts' = artifacts \ gone
    /\ onDisk' = onDisk \ {a.path : a \in gone}

\* The plaintext listener of a freshly decoded Service is applied.
ApplyHttp(s, ok) ==
    /\ s \in Owned
    /\ s.state = stateNotConfigured
    /\ ~ArtifactPathTaken(ArtifactPath(s, "http"))
    /\ IF ok THEN Applied(s, "http") ELSE UNCHANGED <<artifacts, onDisk>>
    /\ ret' = Ret("applyHttp", NoPath, IF ok THEN "nil" ELSE "writer")
    /\ UNCHANGED <<disk, fkEnforced, files, services, pc, mem, abandoned, schema, tx, calls>>

\* ----------------------------------------------------- ServiceStateMachine
\* NotConfigured -> ToConfigureHTTPS: the definition requires the encrypted
\* listener and no matching artifact exists.
RequireHttps(s) ==
    /\ s \in Owned
    /\ s.state = stateNotConfigured
    /\ RequiresHttps(s)
    /\ ~Has(s, "https")
    /\ SetState(s, stateToConfigureHttps)
    /\ ret' = Ret("requireHttps", NoPath, "nil")
    /\ UNCHANGED <<disk, fkEnforced, others, files, artifacts, pc, mem, abandoned>>

\* The state a success report of the ArtifactWriter moves a Service to.
Reported(s) ==
    IF s.state \in {stateToConfigureHttps, stateToDisableHttp}
      THEN stateConfigured ELSE s.state

\* ToConfigureHTTPS -> Configured on the report that the encrypted artifact
\* was written and the proxy reloaded; a failure report changes nothing.
ReportHttps(s, ok) ==
    /\ s \in Owned
    /\ s.state = stateToConfigureHttps
    /\ ~ArtifactPathTaken(ArtifactPath(s, "https"))
    /\ IF ok
         THEN /\ Applied(s, "https")
              /\ SetState(s, Reported(s))
         ELSE UNCHANGED <<artifacts, onDisk, services>>
    /\ ret' = Ret("reportHttps", NoPath, IF ok THEN "nil" ELSE "writer")
    /\ UNCHANGED <<disk, fkEnforced, files, pc, mem, abandoned, schema, tx, calls>>

\* Configured -> ToDisableHTTP: encryption is active and the plaintext
\* listener is to be retired.
RetireHttp(s) ==
    /\ s \in Owned
    /\ s.state = stateConfigured
    /\ Has(s, "http")
    /\ SetState(s, stateToDisableHttp)
    /\ ret' = Ret("retireHttp", NoPath, "nil")
    /\ UNCHANGED <<disk, fkEnforced, others, files, artifacts, pc, mem, abandoned>>

\* ToDisableHTTP -> Configured on the report that the plaintext artifact was
\* removed and the proxy reloaded; a failure report changes nothing.
ReportRemoval(s, ok) ==
    /\ s \in Owned
    /\ s.state = stateToDisableHttp
    /\ IF ok
         THEN /\ Removed({a \in ArtifactsOf(s.id) : a.type = "http"})
              /\ SetState(s, Reported(s))
         ELSE UNCHANGED <<artifacts, onDisk, services>>
    /\ ret' = Ret("reportRemoval", NoPath, IF ok THEN "nil" ELSE "writer")
    /\ UNCHANGED <<disk, fkEnforced, files, pc, mem, abandoned, schema, tx, calls>>

\* any -> NotConfigured: the File of the Service no longer asks for the
\* encrypted listener under its name; the encrypted artifact is torn down.
Unrequire(s) ==
    /\ s \in Owned
    /\ s.state # stateNotConfigured
    /\ \E f \in FileById(s.file_id) :
        /\ ~DecodeFails(f.content)
        /\ s.name \in DOMAIN Decode(f.content)
        /\ ~Decode(f.content)[s.name].tls
    /\ Removed({a \in ArtifactsOf(s.id) : a.type = "https"})
    /\ SetState(s, stateNotConfigured)
    /\ ret' = Ret("unrequire", NoPath, "nil")
    /\ UNCHANGED <<disk, fkEnforced, files, pc, mem, abandoned, schema, tx, calls>>

\* ----------------------------------------------------------------- Cleaner
\* A Service that cannot find its definition in its File is disowned: its
\* file_id is set to null.
OrphanServices(f) ==
    /\ f \in files
    /\ ~DecodeFails(f.content)
    /\ LET lost == {s \in ServicesOf(f.id) : s.name \notin DOMAIN Decode(f.content)} IN
        /\ lost # {}
        /\ services' = (services \ lost) \cup {[s EXCEPT !.file_id = NULL] : s \in lost}
    /\ ret' = Ret("orphanServices", f.path, "nil")
    /\ UNCHANGED <<disk, fkEnforced, others, files, artifacts, pc, mem, abandoned>>

\* Pass (a): the artifacts of the Services whose owning-file reference is
\* null are torn down, and those Services whose teardown succeeded deleted;
\* the pass reports the teardowns that failed.
CleanServices ==
    /\ LET orphans == {s \in services : s.file_id = NULL} IN
        \E torn \in SUBSET orphans :
            /\ services' = services \ torn
            /\ artifacts' = ArtifactsAfterDelete(torn)
            /\ onDisk' = onDisk \ {a.path : a \in UNION {ArtifactsOf(s.id) : s \in torn}}
            /\ ret' = Ret("cleanServices", NoPath, IF torn = orphans THEN "nil" ELSE "writer")
    /\ UNCHANGED <<disk, fkEnforced, files, pc, mem, abandoned, schema, tx, calls>>

\* Pass (b): the artifacts whose owning-service reference is null are
\* removed from the disk, and the rows of those whose removal succeeded
\* deleted; the pass reports the removals that failed.
CleanArtifacts ==
    /\ LET disowned == {a \in artifacts : a.service_id = NULL} IN
        \E gone \in SUBSET disowned :
            /\ Removed(gone)
            /\ ret' = Ret("cleanArtifacts", NoPath, IF gone = disowned THEN "nil" ELSE "writer")
    /\ UNCHANGED <<disk, fkEnforced, files, services, pc, mem, abandoned, schema, tx, calls>>

\* ------------------------------------------------------------ specification
Init ==
    /\ disk = [p \in Paths |-> NoFile]
    /\ fkEnforced \in BOOLEAN
    /\ files = {}
    /\ services = {}
    /\ artifacts = {}
    /\ pc = "idle"
    /\ mem = NoRecord
    /\ ret = Ret("none", NoPath, "nil")
    /\ abandoned = NoFile
    /\ onDisk = {}
    /\ schema = Tables
    /\ tx = {}
    /\ calls = [c \in Callers |-> NoCall]

Keys == {"svc", "api"}

\* The Reconciler working through the scan events of the watched file, the
\* directory changing under it, and the Cleaner.
Next ==
    \/ \E p \in Watched, d \in DiskFiles : WriteDisk(p, d)
    \/ \E p \in Watched : DeleteDisk(p)
    \/ \E p \in Watched, readOk, insertOk \in BOOLEAN : ReconcileNew(p, readOk, insertOk)
    \/ \E p \in Watched, readOk, updateOk \in BOOLEAN : ReconcileModified(p, readOk, updateOk)
    \/ \E p \in Watched : ReconcileUnchanged(p)
    \/ \E visited \in Visits(Keys) : ReconcileServices(visited)
    \/ MarkApplied
    \/ Crash
    \/ \E p \in Watched : RemoveFile(p)
    \/ CleanServices

Spec == Init /\ [][Next]_vars

\* ------------------------------------------- Services and their artifacts
\* The file d was written after every file on disk and every stored File.
Later(d) ==
    /\ \A p \in Paths : disk[p].present => disk[p].modTime < d.modTime
    /\ \A f \in files : f.last_modified < d.modTime

\* A store that checks foreign keys.
InitProxy == Init /\ fkEnforced

\* The Reconciler working through the edits of the watched file, one pass
\* after another, without store errors.
Reconciling ==
    \/ \E p \in Watched, d \in DiskFiles : pc = "idle" /\ Later(d) /\ WriteDisk(p, d)
    \/ \E p \in Watched : pc = "idle" /\ DeleteDisk(p)
    \/ \E p \in Watched : ReconcileNew(p, TRUE, TRUE)
    \/ \E p \in Watched : ReconcileModified(p, TRUE, TRUE)
    \/ \E visited \in Visits(Keys) : ReconcileServices(visited) /\ ret'.err # "store"
    \/ MarkApplied

\* The Reconciler, the ServiceStateMachine and the ArtifactWriter.
NextStates ==
    \/ Reconciling
    \/ \E s \in services, ok \in BOOLEAN : ApplyHttp(s, ok)
    \/ \E s \in services : RequireHttps(s)
    \/ \E s \in services, ok \in BOOLEAN : ReportHttps(s, ok)
    \/ \E s \in services : RetireHttp(s)
    \/ \E s \in services, ok \in BOOLEAN : ReportRemoval(s, ok)
    \/ \E s \in services : Unrequire(s)

SpecStates == InitProxy /\ [][NextStates]_vars

\* The Reconciler, the removal of the watched file, the ArtifactWriter and
\* the Cleaner.
NextClean ==
    \/ Reconciling
    \/ \E p \in Watched : RemoveFile(p)
    \/ \E s \in services : ApplyHttp(s, TRUE)
    \/ \E f \in files : OrphanServices(f)
    \/ CleanServices
    \/ CleanArtifacts

SpecClean == InitProxy /\ [][NextClean]_vars

\* ------------------------------------------- the files table, under calls
\* addFile on a scanned file, whatever the store holds.
CallAddFile(p, readOk, insertOk) ==
    /\ disk[p].present
    /\ FileRoom
    /\ addFile(FilePathAndInfo(p), readOk, insertOk)
    /\ UNCHANGED <<disk, fkEnforced, others, pc, mem, abandoned>>

\* updateFile on a stored File and the scan of its path.
CallUpdateFile(old, readOk, updateOk) ==
    /\ old \in files
    /\ disk[old.path].present
    /\ updateFile(old, FilePathAndInfo(old.path), readOk, updateOk)
    /\ UNCHANGED <<disk, fkEnforced, others, pc, mem, abandoned>>

\* The row of a File is deleted.
CallDeleteFile(f) ==
    /\ f \in files
    /\ DeleteFileRow(f)
    /\ ret' = Ret("removeFile", f.path, "nil")
    /\ UNCHANGED <<disk, fkEnforced, others, pc, mem, abandoned>>

NextCalls ==
    \/ \E p \in Paths, d \in DiskFiles : WriteDisk(p, d)
    \/ \E p \in Paths, readOk, insertOk \in BOOLEAN : CallAddFile(p, readOk, insertOk)
    \/ \E old \in files, readOk, updateOk \in BOOLEAN : CallUpdateFile(old, readOk, updateOk)
    \/ \E f \in files : CallDeleteFile(f)

\* addFile, updateFile and the deletion of a File row called in any order on
\* the files of a directory of two.
SpecCalls == Init /\ [][NextCalls]_vars

\* ------------------------------------------- updateFile and *oldFile
\* updateFile on the stored File of a path, read from the store by the
\* caller, who keeps the record as updateFile leaves it.
CallUpdateFileKept(old, readOk, updateOk) ==
    /\ old \in files
    /\ disk[old.path].present
    /\ updateFile(old, FilePathAndInfo(old.path), readOk, updateOk)
    /\ mem' = updateFileMem(old, FilePathAndInfo(old.path), readOk)
    /\ UNCHANGED <<disk, fkEnforced, others, pc, abandoned>>

NextRecord ==
    \/ \E p \in Watched, d \in DiskFiles : WriteDisk(p, d)
    \/ \E p \in Watched : DeleteDisk(p)
    \/ \E p \in Watched, readOk, insertOk \in BOOLEAN : CallAddFile(p, readOk, insertOk)
    \/ \E old \in files, readOk, updateOk \in BOOLEAN : CallUpdateFileKept(old, readOk, updateOk)

\* addFile and updateFile called on the watched file as it is edited.
SpecRecord == Init /\ [][NextRecord]_vars

\* ------------------------------------------------------------ createTables
\* The steps of createTables that may fail, in order: db.Begin, the three
\* tx.Exec and tx.Commit.
Steps == <<"begin", "files", "services", "nginx_config_files", "commit">>

\* CREATE TABLE without IF NOT EXISTS: an error when the table exists.
TableExistsErrorPlain(table) == table \in schema

\* CREATE TABLE IF NOT EXISTS: a table that exists is no error.
TableExistsError(table) == FALSE

\* The step fails: the store fails there, or the statement is refused.
StepFails(step, failAt) ==
    \/ step = failAt
    \/ step \in Tables /\ TableExistsError(step)

\* The position in Steps of the first step that fails, one past the last when
\* none does.
Stopped(failAt) ==
    IF \E i \in DOMAIN Steps : StepFails(Steps[i], failAt)
      THEN CHOOSE i \in DOMAIN Steps :
              /\ StepFails(Steps[i], failAt)
              /\ \A j \in 1..(i - 1) : ~StepFails(Steps[j], failAt)
      ELSE Len(Steps) + 1

\* The tables the statements before position i have created in the
\* transaction.
Created(i) == ({Steps[j] : j \in 1..(i - 1)} \cap Tables) \ schema

\* The error createTables returns.
createTablesErr(failAt) ==
    LET i == Stopped(failAt) IN
    IF i > Len(Steps) THEN "nil"
    ELSE IF Steps[i] = failAt THEN "store"
    ELSE "exists"

\* createTables: when an Exec fails it returns without tx.Rollback(), the
\* transaction stays open with what it created; a failed Commit ends the
\* transaction and rolls it back.
createTables(failAt) ==
    LET i == Stopped(failAt) IN
    /\ schema' = IF i > Len(Steps) THEN schema \cup Created(i) ELSE schema
    /\ tx' = IF i <= Len(Steps) /\ Steps[i] \in Tables THEN tx \cup {Created(i)} ELSE tx
    /\ ret' = Ret("createTables", NoPath, createTablesErr(failAt))
    /\ UNCHANGED <<disk, fkEnforced, files, services, artifacts, pc, mem, abandoned,
                   onDisk, calls>>

\* A database that has just been created: no table yet.
InitSchema ==
    /\ disk = [p \in Paths |-> NoFile]
    /\ fkEnforced \in BOOLEAN
    /\ files = {}
    /\ services = {}
    /\ artifacts = {}
    /\ pc = "idle"
    /\ mem = NoRecord
    /\ ret = Ret("none", NoPath, "nil")
    /\ abandoned = NoFile
    /\ onDisk = {}
    /\ schema = {}
    /\ tx = {}
    /\ calls = [c \in Callers |-> NoCall]

FailAts == {Steps[i] : i \in DOMAIN Steps} \cup {"none"}

\* createTables called at startup, again and again, and Files added once the
\* tables exist.
NextSchema ==
    \/ \E failAt \in FailAts : createTables(failAt)
    \/ \E p \in Watched, d \in DiskFiles : WriteDisk(p, d)
    \/ \E p \in Watched, readOk, insertOk \in BOOLEAN :
        "files" \in schema /\ CallAddFile(p, readOk, insertOk)

SpecSchema == InitSchema /\ [][NextSchema]_vars

\* ------------------------------------------------- addFile, two at a time
\* A caller enters addFile with the scan of a file of the directory.
StartAdd(c, p) ==
    /\ calls[c].pc = "none"
    /\ disk[p].present
    /\ calls' = [calls EXCEPT ![c] = [pc |-> "read", file |-> FilePathAndInfo(p)]]
    /\ UNCHANGED <<disk, fkEnforced, store, pc, mem, ret, abandoned, onDisk, schema, tx>>

\* getFileContent, and the return of its error.
AddRead(c, readOk) ==
    /\ calls[c].pc = "read"
    /\ calls' = [calls EXCEPT ![c] =
            IF ReadFails(calls[c].file.Path, readOk)
              THEN [pc |-> "done", file |-> calls[c].file, err |-> "read"]
              ELSE [pc |-> "insert", file |-> calls[c].file,
                    content |-> disk[calls[c].file.Path].content]]
    /\ UNCHANGED <<disk, fkEnforced, store, pc, mem, ret, abandoned, onDisk, schema, tx>>

\* fModel.Insert, one statement of the store, and the return.
AddInsert(c, insertOk) ==
    /\ calls[c].pc = "insert"
    /\ LET file == calls[c].file
           err == IF PathTaken(file.Path) THEN "constraint"
                  ELSE IF ~insertOk THEN "store"
                  ELSE "nil"
       IN
        /\ files' = IF err = "nil"
                      THEN files \cup {NewFileModel(file, calls[c].content, NextId(files))}
                      ELSE files
        /\ calls' = [calls EXCEPT ![c] = [pc |-> "done", file |-> file, err |-> err]]
    /\ UNCHANGED <<disk, fkEnforced, services, artifacts, pc, mem, ret, abandoned,
                   onDisk, schema, tx>>

\* Two calls of addFile, each run once, on files that appear in the directory
\* and are edited while the calls run.
NextConc ==
    \/ \E p \in Paths, d \in DiskFiles : WriteDisk(p, d)
    \/ \E c \in Callers, p \in Paths : StartAdd(c, p)
    \/ \E c \in Callers, readOk \in BOOLEAN : AddRead(c, readOk)
    \/ \E c \in Callers, insertOk \in BOOLEAN : AddInsert(c, insertOk)

SpecConc == Init /\ [][NextConc]_vars

\* ------------------------------------------------------------------ claims
\* The step is one of operation op (the steps of the directory change disk
\* and leave ret alone).
Did(op) == disk' = disk /\ ret'.op = op

\* C1: addFile for a path that already has a File row returns the constraint
\* error (or, when the file's content could not be read, the read error that
\* comes before the insert) and creates no row; in every state at most one
\* File row has any given path.
C1_UniquePath ==
    /\ [](\A f, g \in files : f.path = g.path => f = g)
    /\ [][(Did("addFile") /\ FileByPath(ret'.path) # {}) =>
            /\ ret'.err \in {"constraint", "read"}
            /\ store' = store]_vars

\* C1: addFile has just been refused for a path that is stored.
C1_Witness ==
    /\ ret.op = "addFile"
    /\ ret.err = "constraint"
    /\ Cardinality(FileByPath(ret.path)) = 1

\* C2: a scan of a file whose path is stored with the modification time the
\* file has on disk is classified Unchanged and leaves the File, Service and
\* artifact rows as they were; and a scan that adds or updates the File stores
\* the modification time scanned, so that scanning the same file again is such
\* a scan.
C2_UnchangedScanIsIdempotent ==
    [][/\ (/\ Did("addFile") \/ Did("updateFile") \/ Did("unchanged")
           /\ \E f \in FileByPath(ret'.path) : f.last_modified = disk[ret'.path].modTime)
          => (ret'.op = "unchanged" /\ store' = store)
       /\ ((Did("addFile") \/ Did("updateFile")) /\ ret'.err = "nil")
          => \E f \in files' : f.path = ret'.path /\
                f.last_modified = disk[ret'.path].modTime]_vars

\* C2: a file whose pass has ended is scanned again, unchanged, with its
\* Services stored.
C2_Witness ==
    /\ ret.op = "unchanged"
    /\ \E f \in FileByPath(ret.path) : f.is_configured /\ ServicesOf(f.id) # {}

\* C3: after a successful updateFile the stored File is not fully applied and
\* holds the content and the modification time just scanned.
C3_UpdateResetsFlag ==
    [][(Did("updateFile") /\ ret'.err = "nil") =>
            /\ \E f \in files' : f.path = ret'.path
            /\ \A f \in {g \in files' : g.path = ret'.path} :
                /\ f.is_configured = FALSE
                /\ f.content = disk[ret'.path].content
                /\ f.last_modified = disk[ret'.path].modTime]_vars

\* C3: updateFile has just succeeded on a File whose earlier content had been
\* applied (its Services are stored).
C3_Witness ==
    /\ ret.op = "updateFile"
    /\ ret.err = "nil"
    /\ \E f \in FileByPath(ret.path) :
        /\ ~f.is_configured
        /\ \E s \in ServicesOf(f.id) : s.last_modified # f.last_modified

\* C4: a successful configureServices on a File whose content decodes to n
\* definitions adds exactly n Service rows, one per definition name, each
\* owned by the File and in state NotConfigured, and deletes no Service row.
C4_ConfigureAddsOnePerDefinition ==
    [][(Did("configureServices") /\ ret'.err = "nil") =>
            LET added == services' \ services
                names == DOMAIN Decode(mem.content) IN
            /\ services \subseteq services'
            /\ Cardinality(added) = Cardinality(names)
            /\ {s.name : s \in added} = names
            /\ \A s \in added : s.file_id = mem.id /\ s.state = stateNotConfigured]_vars

\* C4: configureServices has just succeeded for a File of two definitions that
\* an earlier Service row is still stored beside.
C4_Witness ==
    /\ ret.op = "configureServices"
    /\ ret.err = "nil"
    /\ pc = "mark"
    /\ Cardinality({s \in services : s.last_modified = mem.last_modified}) = 2
    /\ \E s \in services : s.last_modified # mem.last_modified

\* C5: when the pass of a re-decoded File ends, the Service rows the File
\* owned before the re-decode no longer refer to it: no two Service rows of
\* one name refer to the same File.
C5_SupersededRowsDisowned ==
    (pc = "idle" /\ ret.op = "markApplied") =>
        \A s, t \in services :
            (s.file_id # NULL /\ s.file_id = t.file_id /\ s.name = t.name) => s = t

\* C6: when the content of the File fails to decode, configureServices
\* returns the error with every Service row as it was, and the File is not
\* fully applied.
C6_DecodeErrorChangesNothing ==
    [][(Did("configureServices") /\ ret'.err = "decode") =>
            /\ services' = services
            /\ \E f \in files' : f.path = ret'.path
            /\ \A f \in {g \in files' : g.path = ret'.path} : ~f.is_configured]_vars

\* C6: configureServices has just failed to decode the content of a File
\* that has Services of an earlier content.
C6_Witness ==
    /\ ret.op = "configureServices"
    /\ ret.err = "decode"
    /\ \E f \in FileByPath(ret.path) : DecodeFails(f.content) /\ ServicesOf(f.id) # {}

\* C7: after a pass was abandoned before the Services of its File were
\* persisted, a scan of the same file, with the content and the modification
\* time it had, is not classified Unchanged.
C7_AbandonedPassIsRetried ==
    [][(/\ Did("addFile") \/ Did("updateFile") \/ Did("unchanged")
        /\ abandoned # NoFile
        /\ abandoned = disk[ret'.path])
       => ret'.op # "unchanged"]_vars

\* C8: a File is fully applied only if its content decodes and every
\* definition of it has a Service row of the File made from that content
\* (its name, its encoded definition, the File's modification time).
C8_AppliedOnlyWhenPersisted ==
    \A f \in files :
        f.is_configured =>
            /\ ~DecodeFails(f.content)
            /\ \A n \in DOMAIN Decode(f.content) :
                \E s \in ServicesOf(f.id) :
                    /\ s.name = n
                    /\ s.content = Encode(Decode(f.content)[n])
                    /\ s.last_modified = f.last_modified

\* C8: a File of two definitions is fully applied, after an earlier content of
\* it was.
C8_Witness ==
    \E f \in files :
        /\ f.is_configured
        /\ Cardinality(DOMAIN Decode(f.content)) = 2
        /\ \E s \in ServicesOf(f.id) : s.last_modified # f.last_modified

\* C9: a pass that persisted every Service of its File and ends without error
\* or crash ends with the File fully applied.
C9_AppliedAtEndOfPass ==
    [][(pc = "mark" /\ pc' = "idle" /\ ret'.err = "nil") =>
            \E f \in files' : f.path = mem.path /\ f.is_configured]_vars

\* C9: the pass of a modified File has just ended with its Services persisted.
C9_Witness ==
    /\ pc = "idle"
    /\ ret.op = "markApplied"
    /\ \E f \in FileByPath(ret.path) :
        /\ f.is_configured
        /\ \E s \in ServicesOf(f.id) : s.last_modified # f.last_modified

\* C10: when a File is removed, every Service row that belonged to it is still
\* stored, with a null owning-file reference.
C10_RemovalNullsServices ==
    [][Did("removeFile") =>
            \A f \in FileByPath(ret'.path) : \A s \in ServicesOf(f.id) :
                \E t \in services' : t.id = s.id /\ t.file_id = NULL]_vars

\* The Service row s is deleted by the step.
Deleted(s) == s \in services /\ \A t \in services' : t.id # s.id

\* C11: when a Service row is deleted, every artifact row that referred to it
\* is still stored afterwards, with a null owning-service reference and the
\* path it had; the step deletes no artifact row.
C11_ArtifactsOutliveService ==
    [][\A s \in services : Deleted(s) =>
            /\ \A a \in ArtifactsOf(s.id) : [a EXCEPT !.service_id = NULL] \in artifacts'
            /\ {a.path : a \in artifacts'} = {a.path : a \in artifacts}]_vars

\* C11: the Cleaner has deleted a Service after tearing its artifact down: the
\* row of the artifact is stored without an owner, its file is off the disk.
C11_Witness ==
    /\ ret.op = "cleanServices"
    /\ \E a \in artifacts :
        /\ a.service_id = NULL
        /\ a.path \notin onDisk
        /\ \A s \in services : s.id # a.path[1]

\* C12: a Service row is deleted only once every artifact it owns is off the
\* disk: no step deletes a Service and leaves one of its artifacts on disk.
C12_TeardownBeforeDelete ==
    [][\A s \in services : Deleted(s) =>
            \A a \in ArtifactsOf(s.id) : a.path \notin onDisk']_vars

\* C13: a Service is Configured after a step only if it already was, or if it
\* was in ToConfigureHTTPS or ToDisableHTTP and the step is a success report
\* of the ArtifactWriter; a failure report leaves every Service as it was.
C13_ConfiguredOnlyOnSuccessReport ==
    [][/\ \A t \in services' : t.state = stateConfigured =>
            \E s \in services :
                /\ s.id = t.id
                /\ \/ s.state = stateConfigured
                   \/ /\ s.state \in {stateToConfigureHttps, stateToDisableHttp}
                      /\ ret'.op \in {"reportHttps", "reportRemoval"}
                      /\ ret'.err = "nil"
       /\ ((Did("reportHttps") \/ Did("reportRemoval")) /\ ret'.err = "writer")
            => services' = services]_vars

\* C13: a Service went all the way round: its encrypted artifact is written,
\* the removal of its plaintext artifact has just been reported, and it is
\* Configured.
C13_Witness ==
    /\ ret = Ret("reportRemoval", NoPath, "nil")
    /\ \E s \in services :
        /\ s.state = stateConfigured
        /\ Has(s, "https")
        /\ ~Has(s, "http")

\* C14: when configureServices returns an error, the Service rows are the
\* ones stored before the call: no insert of the failed call remains.
C14_FailedConfigureAddsNothing ==
    [][(Did("configureServices") /\ ret'.err # "nil") => services' = services]_vars

\* C15: when createTables returns an error, no table it created exists and
\* the transaction it opened is not left open.
C15_FailedCreateLeavesNothing ==
    [][(Did("createTables") /\ ret'.err # "nil") =>
            schema' = schema /\ tx' \subseteq tx]_vars

\* C17: createTables on a database where the three tables exist is not
\* refused, and leaves the schema and every row as they were; a call that
\* succeeds leaves the three tables, so a second call is one of those.
C17_CreateTablesIdempotent ==
    [][Did("createTables") =>
            /\ ret'.err = "nil" => schema' = Tables
            /\ schema = Tables =>
                /\ ret'.err # "exists"
                /\ schema' = schema
                /\ store' = store]_vars

\* C17: createTables has succeeded on a database that holds a File.
C17_Witness ==
    /\ ret = Ret("createTables", NoPath, "nil")
    /\ schema = Tables
    /\ files # {}

\* Both calls of addFile have returned, neither on a failure of the read or
\* of the store.
BothReturned ==
    \A c \in Callers : calls[c].pc = "done" /\ calls[c].err \in {"nil", "constraint"}

\* C16: whatever the interleaving of two calls of addFile, no path has two
\* File rows; when both have returned (the read and the store did not fail),
\* on one path exactly one call succeeded, the other got the constraint
\* error and the path has its row; on two paths both succeeded and each path
\* has its row.
C16_ConcurrentAddFile ==
    /\ \A f, g \in files : f.path = g.path => f = g
    /\ BothReturned =>
        /\ \A c \in Callers : Cardinality(FileByPath(calls[c].file.Path)) = 1
        /\ IF calls[1].file.Path = calls[2].file.Path
             THEN {calls[c].err : c \in Callers} = {"nil", "constraint"}
             ELSE {calls[c].err : c \in Callers} = {"nil"}

\* C16: two calls for the same path have returned, one with the constraint
\* error, and the row stored is the one of a file edited between their scans.
C16_Witness ==
    /\ BothReturned
    /\ calls[1].file.Path = calls[2].file.Path
    /\ calls[1].file.ModTime # calls[2].file.ModTime
    /\ \E c \in Callers : calls[c].err = "constraint"

\* C18: a File that has a Service row and stays stored has one after every
\* step, whatever fails or stops in updateFile or configureServices.
C18_FileKeepsAService ==
    [][\A f \in files :
            (ServicesOf(f.id) # {} /\ \E g \in files' : g.id = f.id) =>
                \E s \in services' : s.file_id = f.id]_vars

\* C18: the second reconciliation of a File has failed in configureServices
\* before any insert: the File has only the rows of its earlier content.
C18_Witness ==
    /\ ret.op = "configureServices"
    /\ ret.err # "nil"
    /\ \E f \in FileByPath(ret.path) :
        /\ ~f.is_configured
        /\ ServicesOf(f.id) # {}
        /\ \A s \in ServicesOf(f.id) : s.last_modified # f.last_modified

\* C19: whatever the Reconciler does in between, a pass of the Cleaner
\* deletes only Service rows whose file_id is null and artifact rows whose
\* service_id is null, and leaves every Service of a stored File as it was;
\* a pass that follows a complete pass of its kind, with no step of the
\* Reconciler in between, changes nothing.
C19_CleanerTouchesOnlyDisowned ==
    [][/\ Did("cleanServices") =>
            /\ \A s \in services : s.file_id # NULL => s \in services'
            /\ services' \subseteq services
            /\ {a.path : a \in artifacts'} = {a.path : a \in artifacts}
       /\ Did("cleanArtifacts") =>
            /\ \A a \in artifacts : a.service_id # NULL => a \in artifacts'
            /\ artifacts' \subseteq artifacts
            /\ services' = services
       /\ \A op \in {"cleanServices", "cleanArtifacts"} :
            (ret = Ret(op, NoPath, "nil") /\ Did(op)) =>
                store' = store /\ onDisk' = onDisk]_vars

\* C19: in the middle of a pass of the Reconciler, the Cleaner has deleted a
\* disowned Service (its id is missing among the rows) and left the Services
\* of the stored File.
C19_Witness ==
    /\ pc # "idle"
    /\ ret = Ret("cleanServices", NoPath, "nil")
    /\ services # {}
    /\ services \subseteq Owned
    /\ \E i \in 1..Max({s.id : s \in services}) : \A s \in services : s.id # i

\* C20: when updateFile returns, the caller's record of the File is the
\* stored row (content, is_configured and last_modified included); when it
\* returns an error, the row and the record are what they were before the call.
C20_RecordAgreesWithRow ==
    [][Did("updateFile") =>
            /\ mem' \in files'
            /\ ret'.err # "nil" => files' = files /\ mem' \in files]_vars

====
